---- MODULE Spec2Model ----
(***************************************************************************)
(* A model of the AI communication assistant's pipeline: the keyword       *)
(* classifier, the priority and trust scorers, the Gemini adapter, mail    *)
(* ingestion, the processing task and the send-reply request, over a       *)
(* database of Thread, Email and Draft rows.                               *)
(***************************************************************************)
EXTENDS Integers, Sequences, FiniteSets, TLC

VARIABLES
    threads,    \* table Thread: sequence of rows, primary key = index
    emails,     \* table Email
    drafts,     \* table Draft
    now,        \* dt.datetime.utcnow(), in minutes
    classified, \* history: ids of the Emails a processing pass has classified
    last,       \* history: the last operation on the database and its outcome
    workers,    \* the processing passes in flight (SpecConc)
    kb,         \* table KBEntry
    rag,        \* a RAGService instance: its index and its id_to_entry map
    notifications, \* table Notification
    arg,        \* the input of the pure function under check
    res         \* its result

vars == <<threads, emails, drafts, now, classified, last, workers, kb, rag,
          notifications, arg, res>>

dbVars == <<threads, emails, drafts, now, classified, last>>

auxVars == <<kb, rag, notifications>>

----------------------------------------------------------------------------
(* Text: Python str, modelled by TLA+ strings.                             *)

\* str.lower() on one character (the letters the checked texts use).
LowerChar(c) ==
    CASE c = "A" -> "a" [] c = "B" -> "b" [] c = "D" -> "d" [] c = "E" -> "e"
      [] c = "H" -> "h" [] c = "N" -> "n" [] c = "O" -> "o" [] c = "P" -> "p"
      [] c = "S" -> "s" [] c = "T" -> "t" [] c = "U" -> "u" [] c = "W" -> "w"
      [] c = "Y" -> "y" [] OTHER -> c

RECURSIVE lower(_)
lowerIdentity(text) == text
\* str.lower()
lower(text) ==
    IF text = "" THEN ""
    ELSE LowerChar(SubSeq(text, 1, 1)) \o lower(SubSeq(text, 2, Len(text)))

\* Python's `kw in text` on strings: kw occurs as a contiguous substring.
In(kw, text) ==
    \E i \in 1..(Len(text) - Len(kw) + 1) : SubSeq(text, i, i + Len(kw) - 1) = kw

NEGATIVE_KEYWORDS == {"complain", "terrible", "bad", "angry", "frustrated", "upset",
                      "issue", "problem", "unhappy", "unsatisfied"}
POSITIVE_KEYWORDS == {"thank", "great", "good", "appreciate", "love", "happy",
                      "excellent"}
URGENCY_KEYWORDS == {"urgent", "immediately", "asap", "as soon as possible", "now",
                     "important"}

\* sum(1 for kw in KEYWORDS if kw in lowered)
KeywordCount(keywords, lowered) == Cardinality({kw \in keywords : In(kw, lowered)})

detect_sentiment_tie_negative(text) ==
    IF text = "" THEN [sentiment |-> "neutral", urgency |-> FALSE]
    ELSE LET lowered == lower(text)
             positive_count == KeywordCount(POSITIVE_KEYWORDS, lowered)
             negative_count == KeywordCount(NEGATIVE_KEYWORDS, lowered)
         IN  [sentiment |-> IF positive_count > negative_count THEN "positive"
                            ELSE IF negative_count >= positive_count
                                      /\ negative_count > 0 THEN "negative"
                            ELSE "neutral",
              urgency |-> \E kw \in URGENCY_KEYWORDS : In(kw, lowered)]

\* detect_sentiment_and_urgency(text) -> (sentiment, urgency)
detect_sentiment_and_urgency(text) ==
    IF text = "" THEN [sentiment |-> "neutral", urgency |-> FALSE]
    ELSE LET lowered == lower(text)
             positive_count == KeywordCount(POSITIVE_KEYWORDS, lowered)
             negative_count == KeywordCount(NEGATIVE_KEYWORDS, lowered)
         IN  [sentiment |-> IF positive_count > negative_count THEN "positive"
                            ELSE IF negative_count > positive_count THEN "negative"
                            ELSE "neutral",
              urgency |-> \E kw \in URGENCY_KEYWORDS : In(kw, lowered)]

----------------------------------------------------------------------------
(* The classifier on bounded texts.                                        *)

\* The pieces the checked texts are built from: keywords in mixed case, and
\* fillers that make one keyword occur inside another word.
Fragments == {"angry", "Upset", "BAD", "unhappy", "thank", "Happy", "un",
              "ASAP", "now", "k", " "}

MaxFrags == 3

RECURSIVE Concat(_)
Concat(s) == IF s = <<>> THEN "" ELSE Head(s) \o Concat(Tail(s))

Texts == {Concat(s) : s \in UNION {[1..n -> Fragments] : n \in 0..MaxFrags}}

NoCall == [op |-> "none"]

\* RAGService.__init__: index = None, id_to_entry = {}.
NoIndex == [built |-> FALSE, vectors |-> <<>>, id_to_entry |-> <<>>]

\* No KBEntry, no Notification, a RAGService just constructed.
IdleAux == kb = <<>> /\ rag = NoIndex /\ notifications = <<>>

\* Frame of the specifications that do not touch the database.
IdleDb ==
    /\ threads = <<>> /\ emails = <<>> /\ drafts = <<>> /\ now = 0
    /\ classified = {} /\ last = NoCall /\ workers = <<>>
    /\ IdleAux

InitSentiment == IdleDb /\ arg \in Texts /\ res = NoCall

CallDetect ==
    /\ res = NoCall
    /\ res' = [op |-> "detect"] @@ detect_sentiment_and_urgency(arg)
    /\ UNCHANGED <<dbVars, workers, arg, auxVars>>

NextSentiment == CallDetect

SpecSentiment == InitSentiment /\ [][NextSentiment]_vars

----------------------------------------------------------------------------
(* C10: the sentiment is the majority vote between the positive and the    *)
(* negative keywords that occur in the text as case-insensitive            *)
(* substrings; a tie, or no hit at all, is neutral.                        *)

\* kw occurs in text at position i, letter case ignored.
MatchesAt(kw, text, i) ==
    \A j \in 1..Len(kw) :
        LowerChar(SubSeq(text, i + j - 1, i + j - 1)) = SubSeq(kw, j, j)

Occurs(kw, text) == \E i \in 1..(Len(text) - Len(kw) + 1) : MatchesAt(kw, text, i)

Hits(keywords, text) == Cardinality({kw \in keywords : Occurs(kw, text)})

C10_MajorityVote ==
    res # NoCall /\ res.op = "detect" =>
        LET neg == Hits(NEGATIVE_KEYWORDS, arg)
            pos == Hits(POSITIVE_KEYWORDS, arg)
        IN  /\ neg > pos => res.sentiment = "negative"
            /\ pos > neg => res.sentiment = "positive"
            /\ neg = pos => res.sentiment = "neutral"

\* A tie with hits on both sides, made by a keyword inside another one and by
\* upper-case letters: "unHappy" holds "unhappy" and "happy".
C10_Witness ==
    /\ res # NoCall /\ res.op = "detect"
    /\ Hits(NEGATIVE_KEYWORDS, arg) = 1 /\ Hits(POSITIVE_KEYWORDS, arg) = 1
    /\ arg # lower(arg)
    /\ res.sentiment = "neutral"

\* C11: the urgency flag is true exactly when some urgency keyword occurs in
\* the text as a case-insensitive substring; it is false for the empty text.
C11_UrgencyFlag ==
    res # NoCall /\ res.op = "detect" =>
        (res.urgency <=> \E kw \in URGENCY_KEYWORDS : Occurs(kw, arg))

\* The flag raised by a keyword the text holds in upper case only.
C11_Witness ==
    /\ res # NoCall /\ res.op = "detect"
    /\ res.urgency
    /\ ~\E kw \in URGENCY_KEYWORDS : In(kw, arg)

----------------------------------------------------------------------------
(* GeminiAdapter.generate_reply.  The backend's answer to the prompt is the *)
(* environment's: the call raises, or returns a response object.            *)

Raised(detail) == [kind |-> "raise", detail |-> detail]
IsRaise(v) == v.kind = "raise"

\* The confidence is a float; the model counts it in hundredths.
DefaultConfidence == 60
FallbackReply == "I am sorry, I could not generate a reply due to an internal error."

Whitespace == {" ", "\n"}

RECURSIVE lstrip(_)
lstrip(t) ==
    IF t # "" /\ SubSeq(t, 1, 1) \in Whitespace THEN lstrip(SubSeq(t, 2, Len(t))) ELSE t

RECURSIVE rstrip(_)
rstrip(t) ==
    IF t # "" /\ SubSeq(t, Len(t), Len(t)) \in Whitespace
    THEN rstrip(SubSeq(t, 1, Len(t) - 1)) ELSE t

\* str.strip()
strip(t) == lstrip(rstrip(t))

\* The least position at which sep occurs in t, 0 when it does not.
Find(sep, t) ==
    IF In(sep, t)
    THEN CHOOSE i \in 1..(Len(t) - Len(sep) + 1) :
            /\ SubSeq(t, i, i + Len(sep) - 1) = sep
            /\ \A j \in 1..(i - 1) : SubSeq(t, j, j + Len(sep) - 1) # sep
    ELSE 0

\* str.split(sep): the pieces between the occurrences of sep, left to right.
RECURSIVE split(_, _)
split(t, sep) ==
    LET i == Find(sep, t)
    IN  IF i = 0 THEN <<t>>
        ELSE <<SubSeq(t, 1, i - 1)>> \o split(SubSeq(t, i + Len(sep), Len(t)), sep)

Marker == "Justification:"

\* The except branch of generate_reply.
Fallback(detail) ==
    [kind |-> "return", reply_text |-> FallbackReply,
     justification |-> "Gemini API error: " \o detail, confidence |-> 0]

generate_reply_no_except(backend) ==
    IF backend.call # "ok" THEN Raised(backend.call)
    ELSE [kind |-> "return", reply_text |-> strip(split(backend.text, Marker)[1]),
          justification |-> "", confidence |-> DefaultConfidence]

\* generate_reply(thread_text, kb_context, tone, sentiment, urgency) -> dict.
\* backend.call: "ok", or the exception generate_content raises;
\* backend.text: response.text, NoText when the response has no such
\*   attribute (str(response) is used), TextRaises when reading it raises;
\* backend.info: response.candidate_info: "absent", "nodict" (an object with
\*   no get), "empty" (a dict without 'probability'), "prob" (a dict with a
\*   numeric probability) or "badprob" (one float() rejects).
generate_reply(backend) ==
    IF backend.call # "ok" THEN Fallback(backend.call)
    ELSE IF backend.text = "TextRaises" THEN Fallback("ValueError")
    ELSE LET text == IF backend.text = "NoText" THEN "<response>" ELSE backend.text
         IN  IF backend.info.kind = "nodict" THEN Fallback("AttributeError")
             ELSE LET confidence ==
                          IF backend.info.kind = "prob"
                          THEN backend.info.probability ELSE DefaultConfidence
                  IN  IF backend.info.kind = "badprob" THEN Fallback("ValueError")
                      ELSE LET parts == split(text, Marker)
                           IN  [kind |-> "return",
                                reply_text |-> strip(parts[1]),
                                justification |->
                                    IF Len(parts) > 1 THEN strip(parts[2]) ELSE "",
                                confidence |-> confidence]

\* The backend behaviours checked.
Calls == {"ok", "AuthError", "NetworkError"}

ResponseFragments == {"Dear customer", " ", Marker, "policy"}

MaxParts == 3

ResponseTexts ==
    {Concat(s) : s \in UNION {[1..n -> ResponseFragments] : n \in 0..MaxParts}}
        \cup {"NoText", "TextRaises"}

CandidateInfos ==
    {[kind |-> k, probability |-> DefaultConfidence] :
        k \in {"absent", "nodict", "empty", "badprob"}}
        \cup {[kind |-> "prob", probability |-> p] : p \in {0, 95, 150, -20}}

Backends == [call : Calls, text : ResponseTexts, info : CandidateInfos]

InitGen == IdleDb /\ arg \in Backends /\ res = NoCall

CallGenerate ==
    /\ res = NoCall
    /\ res' = [op |-> "generate", out |-> generate_reply(arg)]
    /\ UNCHANGED <<dbVars, workers, arg, auxVars>>

NextGen == CallGenerate

SpecGen == InitGen /\ [][NextGen]_vars

\* The backend call fails: some statement of the try block raises.
BackendFails(backend) ==
    \/ backend.call # "ok"
    \/ backend.text = "TextRaises"
    \/ backend.info.kind \in {"nodict", "badprob"}

\* C7: whenever the backend call fails, generate_reply raises nothing and
\* returns the fixed apology, confidence 0.0 and a justification that names
\* the error.
C7_FallbackOnFailure ==
    res # NoCall /\ res.op = "generate" /\ BackendFails(arg) =>
        /\ res.out.kind = "return"
        /\ res.out.reply_text = FallbackReply
        /\ res.out.confidence = 0
        /\ In("error", res.out.justification)
        /\ arg.call # "ok" => In(arg.call, res.out.justification)

C7_Witness ==
    /\ res # NoCall /\ res.op = "generate"
    /\ arg.call = "AuthError"
    /\ res.out.reply_text = FallbackReply

\* The text of the response generate_reply parses.
ResponseText(backend) == IF backend.text = "NoText" THEN "<response>" ELSE backend.text

\* The response text after the first occurrence of the marker.
AfterMarker(text) == SubSeq(text, Find(Marker, text) + Len(Marker), Len(text))

\* The response text before the first occurrence of the marker.
BeforeMarker(text) == SubSeq(text, 1, Find(Marker, text) - 1)

\* The marker occurs at most once in the text.
AtMostOneMarker(text) == ~In(Marker, text) \/ ~In(Marker, AfterMarker(text))

\* C31: when the backend answers, the reply is the response text before the
\* marker and the justification the text after it, surrounding blanks left
\* out; without a marker the reply is the whole text and the justification is
\* empty.  Nothing of the response is left out of both.
C31_SplitAccountsForResponse ==
    (res # NoCall /\ res.op = "generate" /\ ~BackendFails(arg)) =>
        LET text == ResponseText(arg)
        IN  IF In(Marker, text)
            THEN /\ res.out.reply_text = strip(BeforeMarker(text))
                 /\ res.out.justification = strip(AfterMarker(text))
            ELSE /\ res.out.reply_text = strip(text)
                 /\ res.out.justification = ""

\* The same for the responses that hold the marker at most once.
SplitOfSingleMarker ==
    (res # NoCall /\ res.op = "generate" /\ AtMostOneMarker(ResponseText(arg)))
        => C31_SplitAccountsForResponse

\* The backend answers and supplies no score of its own.
NoExplicitScore(backend) ==
    ~BackendFails(backend) /\ backend.info.kind \in {"absent", "empty"}

\* Without a score from the backend the confidence is the default.
DefaultWhenNoScore ==
    (res # NoCall /\ res.op = "generate" /\ NoExplicitScore(arg))
        => res.out.confidence = DefaultConfidence

\* C32: the confidence generate_reply returns lies in [0,1] (0..100 in
\* hundredths), and is 0.6 when the backend supplies no score.
C32_ConfidenceInUnitInterval ==
    (res # NoCall /\ res.op = "generate") =>
        /\ res.out.confidence \in 0..100
        /\ NoExplicitScore(arg) => res.out.confidence = DefaultConfidence

----------------------------------------------------------------------------
(* GeminiAdapter.extract_text_from_file.  A file is described by what the  *)
(* extraction backends do with it; each outcome is "ok" or "raise".        *)

Returned(text) == [kind |-> "return", text |-> text]

IMAGE_EXTS == {"png", "jpg", "jpeg", "bmp", "gif"}
AUDIO_EXTS == {"wav", "mp3", "m4a", "flac", "ogg"}

RECURSIVE Repeat(_, _)
Repeat(t, n) == IF n = 0 THEN "" ELSE t \o Repeat(t, n - 1)

\* _extract_text_from_images(images): Gemini Vision, and in its except branch
\* pytesseract on every image; the encoding of the images is outside the try.
_extract_text_from_images(f, pages, vision, tesseract) ==
    IF f.encode = "raise" THEN Raised("encode")
    ELSE IF vision = "ok" THEN Returned("vision text")
    ELSE IF pages > 0 /\ tesseract = "raise" THEN Raised("tesseract")
    ELSE Returned(Repeat("ocr text", pages))

\* _transcribe_audio(file_path): everything is inside the try.
_transcribe_audio(f) ==
    IF f.whisper = "ok" THEN Returned("spoken text") ELSE Returned("")

\* extract_text_from_file(file_path) -> str
extract_text_from_file(f) ==
    IF ~f.exists THEN Returned("")
    ELSE IF f.ext \in IMAGE_EXTS THEN
        IF f.open = "raise" THEN Raised("Image.open")
        ELSE _extract_text_from_images(f, 1, f.vision, f.tesseract)
    ELSE IF f.ext = "pdf" THEN
        LET first == IF f.convert = "raise" THEN Raised("convert_from_path")
                     ELSE _extract_text_from_images(f, f.pages, f.vision, f.tesseract)
        IN  IF ~IsRaise(first) THEN first
            ELSE IF f.convert200 = "raise" THEN Raised("convert_from_path")
            ELSE _extract_text_from_images(f, f.pages, f.vision200, f.tesseract200)
    ELSE IF f.ext \in AUDIO_EXTS THEN _transcribe_audio(f)
    ELSE IF f.open = "raise" \/ f.tesseract = "raise" THEN Raised("tesseract")
    ELSE Returned("ocr text")

Outcome == {"ok", "raise"}

MaxPages == 2

\* One extension of each kind the dispatch tells apart.
Files ==
    [exists : BOOLEAN, ext : {"png", "pdf", "wav", "dat"}, pages : 0..MaxPages,
     open : Outcome, encode : Outcome, vision : Outcome, tesseract : Outcome,
     convert : Outcome, convert200 : Outcome, vision200 : Outcome,
     tesseract200 : Outcome, whisper : Outcome]

InitExtract == IdleDb /\ arg \in Files /\ res = NoCall

CallExtract ==
    /\ res = NoCall
    /\ res' = [op |-> "extract", out |-> extract_text_from_file(arg)]
    /\ UNCHANGED <<dbVars, workers, arg, auxVars>>

NextExtract == CallExtract

SpecExtract == InitExtract /\ [][NextExtract]_vars

\* C8: extract_text_from_file never raises: whatever the kind of the file
\* and whichever backend fails, the fallback included, it returns a string.
C8_NeverRaises ==
    res # NoCall /\ res.op = "extract" => res.out.kind = "return"

----------------------------------------------------------------------------
(* The scorers of utils.py.                                                *)

\* Python's int() on a quotient: truncation toward zero.
IntDiv(a, b) == IF a >= 0 THEN a \div b ELSE -((-a) \div b)

Min(a, b) == IF a < b THEN a ELSE b
Max(a, b) == IF a > b THEN a ELSE b

\* Email.timestamp of an object no INSERT has been emitted for: the column
\* default (utcnow) is filled in by the flush, until then the attribute is None.
None == -1

UrgencyWeight == 50
NegativeWeight == 20
PositivePenalty == 10
AgeStep == 10
AgeCap == 30

calculate_priority_unfloored(sentiment, urgency, timestamp, utcnow) ==
    [kind |-> "return",
     value |-> (IF urgency THEN UrgencyWeight ELSE 0)
                + (IF sentiment = "negative" THEN NegativeWeight
                   ELSE IF sentiment = "positive" THEN -PositivePenalty ELSE 0)
                + Min(IntDiv(utcnow - timestamp, AgeStep), AgeCap)]

calculate_priority_uncapped(sentiment, urgency, timestamp, utcnow) ==
    [kind |-> "return",
     value |-> Max((IF urgency THEN UrgencyWeight ELSE 0)
                    + (IF sentiment = "negative" THEN NegativeWeight
                       ELSE IF sentiment = "positive" THEN -PositivePenalty ELSE 0)
                    + IntDiv(utcnow - timestamp, AgeStep), 0)]

\* calculate_priority(sentiment, urgency, timestamp), utcnow and timestamp in
\* minutes; utcnow() - None raises TypeError.
calculate_priority(sentiment, urgency, timestamp, utcnow) ==
    IF timestamp = None THEN Raised("TypeError")
    ELSE LET score == (IF urgency THEN UrgencyWeight ELSE 0)
                        + (IF sentiment = "negative" THEN NegativeWeight
                           ELSE IF sentiment = "positive" THEN -PositivePenalty
                           ELSE 0)
             age_minutes == utcnow - timestamp
         IN  [kind |-> "return",
              value |-> Max(score + Min(IntDiv(age_minutes, AgeStep), AgeCap), 0)]

ConfidenceWeight == 70
HeuristicsWeight == 30

calculate_trust_unclamped(confidence, heuristics_score) ==
    confidence * ConfidenceWeight + heuristics_score * HeuristicsWeight

\* calculate_trust(confidence, heuristics_score), both in hundredths; the
\* result in hundredths of a point, clamped to [0.0, 100.0].
calculate_trust(confidence, heuristics_score) ==
    Max(0, Min(confidence * ConfidenceWeight + heuristics_score * HeuristicsWeight,
               10000))

----------------------------------------------------------------------------
(* calculate_priority on bounded inputs: a sentiment, the urgency flag, a   *)
(* timestamp stamped by utcnow() and the minutes elapsed since.             *)

Sentiments == {"negative", "neutral", "positive"}

MaxStamp == 2
MaxAge == 320

PriorityInputs ==
    [sentiment : Sentiments, urgency : BOOLEAN, timestamp : 0..MaxStamp, age : 0..MaxAge]

InitPriority == IdleDb /\ arg \in PriorityInputs /\ res = NoCall

CallPriority ==
    /\ res = NoCall
    /\ res' = [op |-> "priority",
               out |-> calculate_priority(arg.sentiment, arg.urgency, arg.timestamp,
                                          arg.timestamp + arg.age)]
    /\ UNCHANGED <<dbVars, workers, arg, auxVars>>

NextPriority == CallPriority

SpecPriority == InitPriority /\ [][NextPriority]_vars

\* C12: the score is the non-negative integer
\* max(0, 50 if urgent + 20 if negative - 10 if positive
\*        + min(floor(age_minutes / 10), 30)):
\* 70 for (negative, urgent, age 0) and 0 for (positive, not urgent, age 0).
C12_PriorityFormula ==
    res # NoCall /\ res.op = "priority" =>
        /\ res.out.kind = "return"
        /\ res.out.value \in Nat
        /\ res.out.value =
              Max(0, (IF arg.urgency THEN 50 ELSE 0)
                     + (IF arg.sentiment = "negative" THEN 20 ELSE 0)
                     - (IF arg.sentiment = "positive" THEN 10 ELSE 0)
                     + Min(arg.age \div 10, 30))
        /\ arg.sentiment = "negative" /\ arg.urgency /\ arg.age = 0
              => res.out.value = 70
        /\ arg.sentiment = "positive" /\ ~arg.urgency /\ arg.age = 0
              => res.out.value = 0

\* The score of a fresh positive, not urgent message: -10 floored to 0.
C12_Witness ==
    /\ res # NoCall /\ res.op = "priority"
    /\ arg.sentiment = "positive" /\ ~arg.urgency /\ arg.age = 0
    /\ res.out.value = 0

\* C13: for a fixed sentiment and urgency the score does not decrease as the
\* age grows and the age adds at most 30 to it; for a fixed sentiment and age
\* the score of an urgent message is not below that of a non-urgent one.
C13_MonotoneInAgeAndUrgency ==
    res # NoCall /\ res.op = "priority" =>
        LET score(urgency, age) ==
                calculate_priority(arg.sentiment, urgency, arg.timestamp,
                                   arg.timestamp + age).value
        IN  /\ \A older \in arg.age..MaxAge : score(arg.urgency, older) >= res.out.value
            /\ res.out.value <= score(arg.urgency, 0) + 30
            /\ score(TRUE, arg.age) >= score(FALSE, arg.age)

\* A message older than the cap: its age counts for exactly 30.
C13_Witness ==
    /\ res # NoCall /\ res.op = "priority"
    /\ arg.age > 300
    /\ arg.sentiment = "neutral" /\ arg.urgency
    /\ res.out.value = 80

----------------------------------------------------------------------------
(* calculate_trust on bounded inputs, in hundredths: confidences and        *)
(* heuristic scores inside and outside [0.0, 1.0].                          *)

MaxScore == 150

TrustInputs == [confidence : -MaxScore..MaxScore, heuristics_score : -MaxScore..MaxScore]

InitTrust == IdleDb /\ arg \in TrustInputs /\ res = NoCall

CallTrust ==
    /\ res = NoCall
    /\ res' = [op |-> "trust", out |-> calculate_trust(arg.confidence, arg.heuristics_score)]
    /\ UNCHANGED <<dbVars, workers, arg, auxVars>>

NextTrust == CallTrust

SpecTrust == InitTrust /\ [][NextTrust]_vars

\* C14: the trust is confidence * 70 + heuristic * 30 clamped into [0, 100]
\* (here in hundredths: [0, 10000]); 70 for (1.0, 0) and 30 for (0, 1.0).
C14_TrustClamped ==
    res # NoCall /\ res.op = "trust" =>
        LET blend == arg.confidence * 70 + arg.heuristics_score * 30
        IN  /\ res.out = (IF blend < 0 THEN 0 ELSE IF blend > 10000 THEN 10000 ELSE blend)
            /\ res.out \in 0..10000
            /\ arg.confidence = 100 /\ arg.heuristics_score = 0 => res.out = 7000
            /\ arg.confidence = 0 /\ arg.heuristics_score = 100 => res.out = 3000

\* A blend above 100 brought back to 100.
C14_Witness ==
    /\ res # NoCall /\ res.op = "trust"
    /\ arg.confidence * 70 + arg.heuristics_score * 30 > 10000
    /\ res.out = 10000

----------------------------------------------------------------------------
(* The database: rows as models.py declares them, committed state only.    *)

Users == {"agent", "admin"}
\* User.role
role(user) == IF user = "admin" THEN "admin" ELSE "user"
\* The users mail is fetched for, and threads belong to.
Agents == {user \in Users : role(user) = "user"}

\* Thread(user_id, thread_id, subject) with the column defaults.
NewThread(user_id, thread_id) ==
    [user_id |-> user_id, thread_id |-> thread_id, sentiment |-> "neutral",
     urgency |-> FALSE, priority_score |-> 0, resolved |-> FALSE]

\* Email(thread, body, ...) with the column defaults, as the flush stores it.
NewEmail(thread, body, atts, timestamp) ==
    [thread |-> thread, body |-> body, timestamp |-> timestamp,
     sentiment |-> "neutral", urgency |-> FALSE, atts |-> atts]

\* Attachment(email, path): the file at path, and extracted_text (NULL = "").
NewAttachment(file) == [file |-> file, extracted_text |-> ""]

\* Draft(thread=thread) with the column defaults.
NewDraft(thread) ==
    [thread |-> thread, reply_text |-> "", justification |-> "",
     confidence_score |-> 0, tone |-> "empathetic", sentiment |-> "neutral",
     coach_score |-> 0, is_sent |-> FALSE]

Ids(table) == 1..Len(table)

\* The Draft rows of a thread.
DraftsOf(drs, t) == {d \in Ids(drs) : drs[d].thread = t}

draft_always_new(drs, t) == 0

\* Thread.draft (uselist=False): the thread's Draft row, 0 for None; with
\* several rows the first one returned.
draft(drs, t) ==
    IF DraftsOf(drs, t) = {} THEN 0
    ELSE CHOOSE d \in DraftsOf(drs, t) : \A o \in DraftsOf(drs, t) : d <= o

\* Thread.emails
EmailsOf(ems, t) == {e \in Ids(ems) : ems[e].thread = t}

MaxThreads == 2
MaxEmails == 2
MaxTime == 10
TickMinutes == 10

\* The mail server's identifier of the n-th thread committed directly.
KeyOf(n) == IF n = 1 THEN "k1" ELSE IF n = 2 THEN "k2" ELSE "k3+"

NeutralBody == "Hello, where is my order"
UrgentBody == "I am angry, fix this asap"
Bodies == {NeutralBody, UrgentBody}

\* The attached files the pipeline meets: none, an image Gemini Vision reads,
\* and an image PIL cannot open.
GoodImage ==
    [exists |-> TRUE, ext |-> "png", pages |-> 1, open |-> "ok", encode |-> "ok",
     vision |-> "ok", tesseract |-> "ok", convert |-> "ok", convert200 |-> "ok",
     vision200 |-> "ok", tesseract200 |-> "ok", whisper |-> "ok"]
CorruptImage == [GoodImage EXCEPT !.open = "raise"]
\* The emails committed directly: a body and its attachments.
EmailKinds ==
    {[body |-> NeutralBody, atts |-> <<>>],
     [body |-> UrgentBody, atts |-> <<NewAttachment(GoodImage)>>],
     [body |-> NeutralBody, atts |-> <<NewAttachment(CorruptImage)>>]}

InitDb ==
    /\ threads = <<>> /\ emails = <<>> /\ drafts = <<>> /\ now = 0
    /\ classified = {} /\ last = NoCall

\* Rows committed directly, as the tests do: db.session.add(thread); commit.
AddThread(user_id) ==
    /\ Len(threads) < MaxThreads
    /\ threads' = Append(threads, NewThread(user_id, KeyOf(Len(threads) + 1)))
    /\ last' = [op |-> "add"]
    /\ UNCHANGED <<emails, drafts, now, classified>>

\* db.session.add(email); commit: the INSERT stamps timestamp with utcnow.
AddEmail(t, body, atts) ==
    /\ Len(emails) < MaxEmails
    /\ t \in Ids(threads)
    /\ emails' = Append(emails, NewEmail(t, body, atts, now))
    /\ last' = [op |-> "add"]
    /\ UNCHANGED <<threads, drafts, now, classified>>

\* Time passes.
Tick ==
    /\ now + TickMinutes <= MaxTime
    /\ now' = now + TickMinutes
    /\ last' = [op |-> "tick"]
    /\ UNCHANGED <<threads, emails, drafts, classified>>

----------------------------------------------------------------------------
(* process_emails_task.                                                    *)

\* Lines 81-84: extract every attachment of the email in turn; an exception
\* of extract_text_from_file is not caught.
RECURSIVE ExtractAttachments(_, _, _)
ExtractAttachments(atts, i, acc) ==
    IF i > Len(atts) THEN acc
    ELSE LET extracted == extract_text_from_file(atts[i].file)
         IN  IF IsRaise(extracted) THEN [acc EXCEPT !.raised = TRUE]
             ELSE ExtractAttachments(atts, i + 1,
                    [raised |-> FALSE,
                     atts |-> [acc.atts EXCEPT ![i].extracted_text = extracted.text],
                     attachment_text |-> acc.attachment_text \o "\n" \o extracted.text])

\* The texts the pipeline classifies, and the classifier's answer on each,
\* computed once.
CombinedTexts ==
    {b \o "\n" \o a : b \in Bodies, a \in {"", "\n" \o "vision text"}}
Classify == [text \in CombinedTexts |-> detect_sentiment_and_urgency(text)]

\* The backend behaviours the pipeline meets: an answer with a justification,
\* and an authentication failure.
GoodBackend ==
    [call |-> "ok", text |-> "Dear customer " \o Marker \o " policy",
     info |-> [kind |-> "absent", probability |-> DefaultConfidence]]
PipelineBackends == {GoodBackend, [GoodBackend EXCEPT !.call = "AuthError"]}

\* generate_reply on each of them, computed once.
Generate == [b \in PipelineBackends |-> generate_reply(b)]

\* Lines 108-116: the draft row the pass writes for thread t: the thread's own
\* row when it has one (d # 0), else a new row.
WriteDraft(drs, d, t, result, tone, sentiment) ==
    LET row == [(IF d = 0 THEN NewDraft(t) ELSE drs[d]) EXCEPT
                    !.reply_text = result.reply_text,
                    !.justification = result.justification,
                    !.confidence_score = result.confidence,
                    !.tone = tone,
                    !.sentiment = sentiment,
                    !.coach_score = IntDiv(calculate_trust(result.confidence, 0), 100)]
    IN  IF d = 0 THEN Append(drs, row) ELSE [drs EXCEPT ![d] = row]

generation_never_skipped(offline) == FALSE

\* Line 96: if offline or adapter is None or rag_service is None (the adapter
\* and the retriever are None exactly when offline, lines 73-74).
generation_skipped(offline) == offline

\* Lines 78-117: one iteration of the loop, on Email id of the tables db, with
\* the backend's behaviour for this email's prompt.  ok is FALSE when the
\* iteration raised (nothing of it is committed).
ProcessEmail(db, id, offline, backend, utcnow) ==
    LET email_record == db.emails[id]
        ex == IF offline
              THEN [raised |-> FALSE, atts |-> email_record.atts, attachment_text |-> ""]
              ELSE ExtractAttachments(email_record.atts, 1,
                     [raised |-> FALSE, atts |-> email_record.atts,
                      attachment_text |-> ""])
        combined_text == email_record.body \o "\n" \o ex.attachment_text
        su == Classify[combined_text]
        t == email_record.thread
        priority == calculate_priority(su.sentiment, su.urgency,
                                       email_record.timestamp, utcnow)
        ems == [db.emails EXCEPT ![id].sentiment = su.sentiment,
                                 ![id].urgency = su.urgency,
                                 ![id].atts = ex.atts]
        ths == [db.threads EXCEPT ![t].sentiment = su.sentiment,
                                  ![t].urgency = su.urgency,
                                  ![t].priority_score = priority.value]
        tone == IF su.sentiment = "negative" THEN "empathetic" ELSE "formal"
        result == Generate[backend]
        d == draft(db.drafts, t)
    IN  IF ex.raised \/ IsRaise(priority)
        THEN [ok |-> FALSE, db |-> db, reused |-> 0, called |-> ~offline]
        ELSE IF generation_skipped(offline)
        THEN [ok |-> TRUE, db |-> [db EXCEPT !.emails = ems, !.threads = ths],
              reused |-> 0, called |-> FALSE]
        ELSE [ok |-> TRUE,
              db |-> [threads |-> ths, emails |-> ems,
                      drafts |-> WriteDraft(db.drafts, d, t, result, tone, su.sentiment)],
              reused |-> IF d = 0 THEN 0 ELSE 1, called |-> TRUE]

\* Line 76: Email.query.filter_by(sentiment='neutral').all(), in id order.
RECURSIVE SelectFrom(_, _)
SelectFrom(ems, i) ==
    IF i > Len(ems) THEN <<>>
    ELSE (IF ems[i].sentiment = "neutral" THEN <<i>> ELSE <<>>) \o SelectFrom(ems, i + 1)

select_unprocessed(ems) == SelectFrom(ems, 1)

\* Lines 77-118: the loop over the selected emails; it ends at the first
\* iteration that raises.
RECURSIVE RunPass(_, _, _, _, _, _)
RunPass(acc, ids, i, offline, backends, utcnow) ==
    IF i > Len(ids) THEN acc
    ELSE LET step == ProcessEmail(acc.db, ids[i], offline, backends[i], utcnow)
         IN  IF ~step.ok
             THEN [acc EXCEPT !.raised = TRUE, !.called = acc.called \/ step.called]
             ELSE RunPass([db |-> step.db, done |-> acc.done + 1, raised |-> FALSE,
                           reused |-> acc.reused + step.reused,
                           called |-> acc.called \/ step.called],
                          ids, i + 1, offline, backends, utcnow)

\* A constructor that does not look at the key: the failure is left to the
\* first call of the backend.
GeminiAdapter_unchecked(api_key) == [kind |-> "return"]

\* GeminiAdapter(): api_key tells whether Config.GEMINI_API_KEY is set.
GeminiAdapter(api_key) ==
    IF ~api_key THEN Raised("RuntimeError") ELSE [kind |-> "return"]

\* A single commit after the loop: a pass that fails persists nothing.
commit_at_end(committed, initial) == initial

\* Lines 96-98 and 117: every iteration ends with its own commit, so when an
\* iteration raises, what the earlier iterations committed is in the
\* database and the raising iteration's changes, still pending, are discarded
\* with the session.
per_item_commit(committed, initial) == committed

\* The pass as the loop leaves it: run is the loop's outcome, start the pass
\* before the loop.
LeftBy(run, start) ==
    IF run.raised THEN [run EXCEPT !.db = per_item_commit(run.db, start.db)] ELSE run

\* The database and the record of the pass when the task ends with outcome
\* out, over the selected ids.
PassEnd(out, ids, offline) ==
    /\ threads' = out.db.threads
    /\ emails' = out.db.emails
    /\ drafts' = out.db.drafts
    /\ classified' = classified \cup {ids[i] : i \in 1..out.done}
    /\ last' = [op |-> "process", raised |-> out.raised, done |-> out.done,
                offline |-> offline, called |-> out.called,
                scenario |-> /\ last.op = "fetch" /\ last.scenario
                             /\ ~offline /\ ~out.raised]
    /\ UNCHANGED now

\* process_emails_task(): one pass, start to return; called tells whether the
\* pass called the extractor, the retriever or the generative backend.  offline is
\* Config.OFFLINE_MODE, api_key whether GEMINI_API_KEY is set; backends[i] is
\* the backend's behaviour for the i-th selected email.
process_emails_task(offline, api_key, backends) ==
    LET ids == select_unprocessed(emails)
        start == [db |-> [threads |-> threads, emails |-> emails, drafts |-> drafts],
                  done |-> 0, raised |-> FALSE, reused |-> 0, called |-> FALSE]
    IN  /\ Len(backends) = Len(ids)
        /\ PassEnd(IF ~offline /\ IsRaise(GeminiAdapter(api_key))
                   THEN [start EXCEPT !.raised = TRUE]
                   ELSE LeftBy(RunPass(start, ids, 1, offline, backends, now), start),
                   ids, offline)

----------------------------------------------------------------------------
(* routes/main.py: thread_view, the send-reply request.                    *)

\* translate_text(text, target_lang): the text itself for English, for an
\* empty text and when the translator fails.
translate_text(text, target_lang, translator) ==
    IF text = "" \/ target_lang = "en" THEN text
    ELSE IF translator = "ok" THEN "[" \o target_lang \o "] " \o text
    ELSE text

thread_left_open(thread) == thread

\* Line 88: thread.resolved = True
mark_resolved(thread) == [thread EXCEPT !.resolved = TRUE]

AgentReply == "Updated reply"

\* The requests checked: a GET (validate_on_submit() is false), and the posts
\* of a reply in English and in Hindi, the translator answering or failing.
EnglishForm ==
    [valid |-> TRUE, reply_text |-> AgentReply, tone |-> "concise",
     language |-> "en", translator |-> "ok"]
Forms ==
    {[EnglishForm EXCEPT !.valid = FALSE],
     EnglishForm,
     [EnglishForm EXCEPT !.language = "hi"],
     [EnglishForm EXCEPT !.language = "hi", !.translator = "raise"]}

\* A view that lets every logged-in user in.
has_access_any(thread, current_user) == TRUE

\* Line 71: the request goes on only for the thread's owner.
has_access(thread, current_user) == thread.user_id = current_user

\* thread_view(thread_id) requested by current_user with the form posted.
thread_view(current_user, thread_id, form) ==
    LET d == IF thread_id \in Ids(threads) THEN draft(drafts, thread_id) ELSE 0
        sends == /\ thread_id \in Ids(threads)
                 /\ has_access(threads[thread_id], current_user)
                 /\ form.valid
                 /\ d # 0
    IN  /\ IF sends
           THEN /\ drafts' = [drafts EXCEPT
                      ![d].reply_text =
                          translate_text(form.reply_text, form.language, form.translator),
                      ![d].tone = form.tone,
                      ![d].is_sent = TRUE]
                /\ threads' = [threads EXCEPT ![thread_id] = mark_resolved(@)]
           ELSE UNCHANGED <<threads, drafts>>
        /\ last' = [op |-> "view"]
        /\ UNCHANGED <<emails, now, classified>>

----------------------------------------------------------------------------
(* services/email_utils.py: fetch_and_store_emails, and fetch_emails_task.  *)

ALLOW_KEYWORDS == {"support", "query", "request", "help"}

\* Line 57: any(k.lower() in subject.lower() for k in keywords)
AllowListed(subject) == \E k \in ALLOW_KEYWORDS : In(lower(k), lower(subject))

\* Line 59: message.get('Thread-Index') or message.get('Message-ID') or subject
thread_identifier(m) ==
    IF m.thread_index # "" THEN m.thread_index
    ELSE IF m.message_id # "" THEN m.message_id
    ELSE m.subject

\* Line 61: Thread.query.filter_by(user_id, thread_id).first(), 0 for None.
FindThread(ths, user_id, key) ==
    LET found == {t \in Ids(ths) : ths[t].user_id = user_id /\ ths[t].thread_id = key}
    IN  IF found = {} THEN 0 ELSE CHOOSE t \in found : \A o \in found : t <= o

\* The messages the mailbox holds: the end-to-end scenario's message, one the
\* allow-list drops, one the server refuses to fetch, one whose fetch breaks
\* the connection, and one of another conversation that carries a file.
HelpMessage ==
    [fetch |-> "OK", subject |-> "Need help urgently", thread_index |-> "",
     message_id |-> "k1", body |-> UrgentBody, atts |-> <<>>]
Messages ==
    {HelpMessage,
     [HelpMessage EXCEPT !.subject = "Big sale", !.message_id = "k2"],
     [HelpMessage EXCEPT !.fetch = "NO"],
     [HelpMessage EXCEPT !.fetch = "raise"],
     [HelpMessage EXCEPT !.message_id = "k2", !.atts = <<NewAttachment(GoodImage)>>]}

\* The allow-list test on each subject, computed once.
SubjectAllowed == [subject \in {m.subject : m \in Messages} |-> AllowListed(subject)]

\* Lines 50-101: the loop over the unseen messages.  st is the loop's state:
\* the tables as committed so far, count, handled, the number of messages the
\* loop has dealt with, seen, the messages the server has flagged \Seen (a
\* FETCH of RFC822 on the mailbox selected read-write sets the flag; the code
\* stores no flag itself), and persisted, the messages whose Email is
\* committed.  Any exception leaves the loop (the try is around it).
RECURSIVE FetchLoop(_, _, _, _, _)
FetchLoop(st, user_id, batch, i, utcnow) ==
    IF i > Len(batch) THEN st
    ELSE LET m == batch[i]
             fetched == [st EXCEPT !.seen = @ \cup {i}]
             key == thread_identifier(m)
             found == FindThread(st.threads, user_id, key)
             ths == IF found = 0 THEN Append(st.threads, NewThread(user_id, key))
                    ELSE st.threads
             t == IF found = 0 THEN Len(ths) ELSE found
             \* the Email object is pending: no flush has stamped its timestamp
             email_record == NewEmail(t, m.body, m.atts, None)
             priority == calculate_priority("neutral", FALSE,
                                            email_record.timestamp, utcnow)
         IN  IF m.fetch = "raise" THEN [st EXCEPT !.raised = TRUE]
             ELSE IF m.fetch # "OK" \/ ~SubjectAllowed[m.subject]
             THEN FetchLoop([(IF m.fetch # "OK" THEN st ELSE fetched) EXCEPT !.handled = i],
                            user_id, batch, i + 1, utcnow)
             ELSE IF m.body = "BodyRaises" \/ IsRaise(priority)
             THEN [fetched EXCEPT !.raised = TRUE]
             ELSE FetchLoop(
                    [threads |-> [ths EXCEPT ![t].priority_score = priority.value],
                     emails |-> Append(st.emails, [email_record EXCEPT !.timestamp = utcnow]),
                     count |-> st.count + 1, handled |-> i, raised |-> FALSE,
                     seen |-> fetched.seen, persisted |-> st.persisted \cup {i}],
                    user_id, batch, i + 1, utcnow)

MaxBatch == 2

Batches == UNION {[1..n -> Messages] : n \in 0..MaxBatch}

\* Lines 43-106: the pass from the connection to the return, on the current
\* tables.  connect is what _connect_imap() does.
FetchOutcome(user_id, connect, batch) ==
    LET start == [threads |-> threads, emails |-> emails, count |-> 0,
                  handled |-> 0, raised |-> FALSE, seen |-> {}, persisted |-> {}]
    IN  IF connect = "raise" THEN [start EXCEPT !.raised = TRUE]
        ELSE FetchLoop(start, user_id, batch, 1, now)

\* The database and the record of the pass when it returns with outcome out.
FetchEnd(out, connect, batch) ==
    /\ Len(out.emails) <= MaxEmails /\ Len(out.threads) <= MaxThreads
    /\ threads' = out.threads
    /\ emails' = out.emails
    /\ last' = [op |-> "fetch", complete |-> out.handled = Len(batch),
                count |-> out.count, stored |-> Len(out.emails) - Len(emails),
                scenario |-> connect = "ok" /\ batch = <<HelpMessage>>]
    /\ UNCHANGED <<drafts, now, classified>>

\* fetch_and_store_emails(user_id) -> count, with the mailbox's unseen messages.
fetch_and_store_emails(user_id, connect, batch) ==
    FetchEnd(FetchOutcome(user_id, connect, batch), connect, batch)

\* fetch_emails_task(): fetch for every user whose role is 'user'.
fetch_emails_task(connect, batch) ==
    \E user \in Agents : fetch_and_store_emails(user, connect, batch)

----------------------------------------------------------------------------
(* The pipeline, one operation at a time.                                  *)

Init == InitDb /\ IdleAux /\ workers = <<>> /\ arg = "" /\ res = NoCall

Next ==
    \/ \E u \in Agents : AddThread(u) /\ UNCHANGED <<workers, arg, auxVars, res>>
    \/ \E t \in 1..MaxThreads, k \in EmailKinds :
        AddEmail(t, k.body, k.atts) /\ UNCHANGED <<workers, arg, auxVars, res>>
    \/ Tick /\ UNCHANGED <<workers, arg, auxVars, res>>
    \/ \E batch \in Batches :
        fetch_emails_task("ok", batch) /\ UNCHANGED <<workers, arg, auxVars, res>>
    \/ fetch_emails_task("raise", <<>>) /\ UNCHANGED <<workers, arg, auxVars, res>>
    \/ \E offline \in BOOLEAN, api_key \in BOOLEAN,
          backends \in UNION {[1..n -> PipelineBackends] : n \in 0..MaxEmails} :
        process_emails_task(offline, api_key, backends) /\ UNCHANGED <<workers, arg, auxVars, res>>
    \/ \E u \in Users, t \in 1..MaxThreads, f \in Forms :
        thread_view(u, t, f) /\ UNCHANGED <<workers, arg, auxVars, res>>

Spec == Init /\ [][Next]_vars

----------------------------------------------------------------------------
(* Claims on the pipeline.                                                 *)

\* Every Email of thread t has been classified by an earlier pass.
AllClassified(t) ==
    /\ EmailsOf(emails, t) # {}
    /\ EmailsOf(emails, t) \subseteq classified

\* C1: a processing pass over a thread whose emails were all classified by
\* earlier passes (no new email since) leaves the is_sent flag of the
\* thread's draft as it was and leaves the reply_text of a sent draft alone.
C1_RerunKeepsSentDraft ==
    [][last'.op = "process" =>
        \A t \in Ids(threads) : AllClassified(t) =>
            \A d \in DraftsOf(drafts, t) :
                /\ drafts'[d].is_sent = drafts[d].is_sent
                /\ drafts[d].is_sent => drafts'[d].reply_text = drafts[d].reply_text]_vars

\* C2: every thread has at most one Draft row.
C2_AtMostOneDraft ==
    \A t \in Ids(threads) : Cardinality(DraftsOf(drafts, t)) <= 1

\* A pass has regenerated the text of a draft that was already sent: it met
\* the thread's Draft row and wrote into it.
C2_Witness ==
    \E d \in Ids(drafts) :
        /\ drafts[d].is_sent
        /\ drafts[d].reply_text = Generate[GoodBackend].reply_text
        /\ Cardinality(DraftsOf(drafts, drafts[d].thread)) = 1

\* C3: a sent Draft belongs to a resolved Thread.
C3_SentImpliesResolved ==
    \A d \in Ids(drafts) : drafts[d].is_sent => threads[drafts[d].thread].resolved

\* After the send, a new Email arrived in the thread and a pass processed it
\* (it rewrote the draft's tone); the draft is still sent, the thread resolved.
C3_Witness ==
    /\ last.op = "process"
    /\ \E d \in Ids(drafts) :
        /\ drafts[d].is_sent
        /\ drafts[d].tone = "empathetic"
        /\ threads[drafts[d].thread].resolved
        /\ Cardinality(EmailsOf(emails, drafts[d].thread)) > 1

\* The most recent Emails of thread t.
Latest(t) ==
    {e \in EmailsOf(emails, t) :
        \A o \in EmailsOf(emails, t) : emails[o].timestamp <= emails[e].timestamp}

\* C5: after a processing pass that ran to its end, each thread's sentiment,
\* urgency and priority_score are the ones computed from its most recent
\* Email (the priority at some time since that Email arrived).
C5_ThreadFollowsLatestEmail ==
    last.op = "process" /\ ~last.raised =>
        \A t \in Ids(threads) : EmailsOf(emails, t) # {} =>
            \E e \in Latest(t) :
                /\ threads[t].sentiment = emails[e].sentiment
                /\ threads[t].urgency = emails[e].urgency
                /\ \E u \in emails[e].timestamp..now :
                    threads[t].priority_score =
                        calculate_priority(emails[e].sentiment, emails[e].urgency,
                                           emails[e].timestamp, u).value

\* C6: a fetch pass deals with every message of the batch, whatever fails on
\* the way, and returns the number of Emails it persisted.
C6_FailureDoesNotAbortBatch ==
    last.op = "fetch" => last.complete /\ last.count = last.stored

\* C9: after the ingestion of the one allow-listed, negative and urgent
\* message and a processing pass with generation, its Email is negative and
\* urgent, its Thread scores 70 plus the age bonus and has an empathetic Draft.
C9_EndToEnd ==
    last.op = "process" /\ last.scenario =>
        \E e \in Ids(emails) :
            LET t == emails[e].thread
            IN  /\ emails[e].body = HelpMessage.body
                /\ threads[t].thread_id = thread_identifier(HelpMessage)
                /\ emails[e].sentiment = "negative"
                /\ emails[e].urgency
                /\ threads[t].priority_score =
                      70 + Min(IntDiv(now - emails[e].timestamp, 10), 30)
                /\ \E d \in DraftsOf(drafts, t) : drafts[d].tone = "empathetic"

\* The selected Emails of thread t, and the one the loop handles last.
SelectedOf(t) == {id \in EmailsOf(emails, t) : emails[id].sentiment = "neutral"}
LastSelected(t) == CHOOSE e \in SelectedOf(t) : \A o \in SelectedOf(t) : o <= e

\* C16: an offline pass classifies every selected Email from its body, gives
\* its Thread that sentiment, urgency and the priority computed from them,
\* calls neither the extractor, the retriever nor the generative backend, and
\* leaves the Draft table as it was.
C16_OfflineSkipsGeneration ==
    [][last'.op = "process" /\ last'.offline =>
        /\ ~last'.raised
        /\ ~last'.called
        /\ drafts' = drafts
        /\ \A id \in Ids(emails) : emails[id].sentiment = "neutral" =>
              LET su == detect_sentiment_and_urgency(emails[id].body \o "\n")
              IN  /\ emails'[id].sentiment = su.sentiment
                  /\ emails'[id].urgency = su.urgency
                  /\ emails'[id].atts = emails[id].atts
        /\ \A t \in Ids(threads) : SelectedOf(t) # {} =>
              LET e == LastSelected(t)
              IN  /\ threads'[t].sentiment = emails'[e].sentiment
                  /\ threads'[t].urgency = emails'[e].urgency
                  /\ threads'[t].priority_score =
                        calculate_priority(emails'[e].sentiment, emails'[e].urgency,
                                           emails[e].timestamp, now).value]_vars

\* An offline pass has classified an Email negative and urgent, its Thread
\* follows, and the Thread has no Draft.
C16_Witness ==
    /\ last.op = "process" /\ last.offline
    /\ \E e \in classified :
        /\ emails[e].sentiment = "negative" /\ emails[e].urgency
        /\ threads[emails[e].thread].urgency
        /\ threads[emails[e].thread].priority_score >= 70
        /\ DraftsOf(drafts, emails[e].thread) = {}

\* C19: the query of a pass selects no Email an earlier pass has classified.
\* (The query runs unless GeminiAdapter() raised before it: a pass with
\* generation enabled that raised without having called any service.)
C19_ClassifiedNeverReselected ==
    [][last'.op = "process" /\ (last'.offline \/ last'.called \/ ~last'.raised) =>
        \A id \in Ids(emails) : emails[id].sentiment = "neutral" => id \notin classified]_vars

----------------------------------------------------------------------------
(* Ingestion passes, with the outcome of each message of the batch.         *)

\* One call of fetch_and_store_emails; res keeps what it was given and what
\* it did: the count returned, the messages flagged \Seen, the messages whose
\* Email was committed, and the Thread and Email tables before the pass.
FetchReport(out, user_id, connect, batch) ==
    /\ FetchEnd(out, connect, batch)
    /\ res' = [op |-> "fetch", user_id |-> user_id, connect |-> connect,
               batch |-> batch, count |-> out.count, raised |-> out.raised,
               seen |-> out.seen, persisted |-> out.persisted,
               threads_before |-> Len(threads), emails_before |-> Len(emails)]
    /\ UNCHANGED <<workers, arg, auxVars>>

FetchPass(user_id, connect, batch) ==
    FetchReport(FetchOutcome(user_id, connect, batch), user_id, connect, batch)

NextFetch ==
    \/ \E u \in Agents : AddThread(u) /\ UNCHANGED <<workers, arg, auxVars, res>>
    \/ \E t \in 1..MaxThreads, k \in EmailKinds :
        AddEmail(t, k.body, k.atts) /\ UNCHANGED <<workers, arg, auxVars, res>>
    \/ Tick /\ UNCHANGED <<workers, arg, auxVars, res>>
    \/ \E u \in Agents, batch \in Batches : FetchPass(u, "ok", batch)
    \/ \E u \in Agents : FetchPass(u, "raise", <<>>)

SpecFetch == Init /\ [][NextFetch]_vars

\* The pass of res met no failing external call.
CleanPass ==
    /\ res # NoCall /\ res.op = "fetch"
    /\ res.connect = "ok"
    /\ \A i \in 1..Len(res.batch) : res.batch[i].fetch = "OK"

\* The Email rows the pass of res created.
RowsCreated == {e \in Ids(emails) : e > res.emails_before /\ e <= res.emails_before + res.count}

\* C21: after a pass without external failure, the messages with an Email row
\* are the allow-listed ones, each has one row, linked to a Thread of the
\* user, and the count returned is the number of rows created.
C21_AllowListedPersisted ==
    CleanPass =>
        /\ res.persisted = {i \in 1..Len(res.batch) : AllowListed(res.batch[i].subject)}
        /\ res.count = Cardinality(res.persisted)
        /\ Cardinality(RowsCreated) = res.count
        /\ \A e \in RowsCreated : threads[emails[e].thread].user_id = res.user_id

\* C22: a message is flagged seen only when its Email has been committed: the
\* messages the pass left flagged are among those it persisted.
C22_SeenOnlyAfterCommit ==
    (res # NoCall /\ res.op = "fetch") => res.seen \subseteq res.persisted

\* The Thread table as it was when the pass of res started (rows are only
\* ever appended).
ThreadsBefore == SubSeq(threads, 1, res.threads_before)

\* The messages of the pass of res that the allow-list keeps.
Kept == {i \in 1..Len(res.batch) : AllowListed(res.batch[i].subject)}

\* C23: no two Threads of one user carry the same external identifier, and a
\* message whose conversation key matches an existing Thread of the user is
\* attached to that Thread by the pass, which creates no Thread for it.
C23_OneThreadPerKey ==
    /\ \A a, b \in Ids(threads) :
            (threads[a].user_id = threads[b].user_id
             /\ threads[a].thread_id = threads[b].thread_id) => a = b
    /\ CleanPass =>
            \A i \in Kept :
                LET t == FindThread(ThreadsBefore, res.user_id,
                                    thread_identifier(res.batch[i]))
                IN  t # 0 => \E e \in RowsCreated : emails[e].thread = t

\* A pass that failed has left nothing of the message it failed on: the Email
\* rows it created are those of the messages it committed, and every Thread
\* it created has such an Email.
FailureLeavesNothing ==
    (res # NoCall /\ res.op = "fetch" /\ res.raised) =>
        /\ Cardinality(RowsCreated) = Cardinality(res.persisted)
        /\ \A t \in Ids(threads) :
                t > res.threads_before =>
                    \/ \E e \in RowsCreated : emails[e].thread = t
                    \/ threads[t].thread_id = KeyOf(t)

UniqueThreadKeys ==
    \A a, b \in Ids(threads) :
        (threads[a].user_id = threads[b].user_id
         /\ threads[a].thread_id = threads[b].thread_id) => a = b

\* The text the pass classified for a committed Email row: the body and, when
\* generation is enabled, the text extracted from each attachment.
ClassifiedText(row, offline) ==
    row.body \o "\n" \o
    (IF offline \/ row.atts = <<>> THEN ""
     ELSE "\n" \o row.atts[1].extracted_text)

\* The positions before k, among the selected ids, of the Emails of thread t.
EarlierOfThread(ems, ids, k, t) == {i \in 1..(k - 1) : ems[ids[i]].thread = t}

\* C24: when the pass fails on the k-th selected Email, the classification
\* (of the body with the stored attachment text), the thread update and
\* (with generation enabled) the Draft of the Emails before it are committed, and nothing of the k-th Email and of the ones
\* after it is: their rows are as before, and so are the Thread and the
\* Drafts of the k-th Email unless an earlier Email of the pass shares them.
C24_PerItemCommit ==
    [][(last'.op = "process" /\ last'.raised /\ (last'.offline \/ last'.called)) =>
        LET ids == select_unprocessed(emails)
            k == last'.done + 1
            tk == emails[ids[k]].thread
        IN  /\ k \in 1..Len(ids)
            /\ \A i \in 1..(k - 1) :
                    LET e == ids[i]
                        t == emails[e].thread
                        su == Classify[ClassifiedText(emails'[e], last'.offline)]
                    IN  /\ ClassifiedText(emails'[e], last'.offline) \in DOMAIN Classify
                        /\ emails'[e].sentiment = su.sentiment
                        /\ emails'[e].urgency = su.urgency
                        /\ (\A j \in EarlierOfThread(emails, ids, k, t) : j <= i) =>
                                /\ threads'[t].sentiment = su.sentiment
                                /\ threads'[t].urgency = su.urgency
                        /\ ~last'.offline => DraftsOf(drafts', t) # {}
            /\ \A j \in k..Len(ids) : emails'[ids[j]] = emails[ids[j]]
            /\ EarlierOfThread(emails, ids, k, tk) = {} =>
                    /\ threads'[tk] = threads[tk]
                    /\ DraftsOf(drafts', tk) = DraftsOf(drafts, tk)
                    /\ \A d \in DraftsOf(drafts, tk) : drafts'[d] = drafts[d]
      ]_vars

\* A pass has failed on its second Email, after committing the first.
C24_Witness ==
    /\ last.op = "process" /\ last.raised /\ last.done = 1
    /\ \E e \in Ids(emails) : emails[e].sentiment # "neutral"

----------------------------------------------------------------------------
(* Concurrent processing passes (several Celery workers), each with its own *)
(* session.  A pass reads when it queries and when it loads thread.draft    *)
(* (line 108), and writes when it commits (line 117); nothing locks the     *)
(* rows in between.                                                         *)

Workers == {"w1", "w2"}

Idle == [pc |-> "idle"]

\* The UPDATE a flush emits for a row: the columns whose value the session
\* changed; the others keep what the database holds.
FlushRow(current, loaded, new) ==
    [f \in DOMAIN new |-> IF new[f] = loaded[f] THEN current[f] ELSE new[f]]

\* Lines 71-76: the pass starts and queries the unprocessed emails.
PassStart(w, offline) ==
    /\ workers[w].pc = "idle"
    /\ workers' = [workers EXCEPT ![w] =
            [pc |-> "loop", offline |-> offline, ids |-> select_unprocessed(emails),
             i |-> 1]]
    /\ UNCHANGED <<dbVars, arg, auxVars, res>>

\* Lines 78-116: one iteration up to the commit: the session loads the email,
\* its thread and thread.draft, and holds the new values.
PassWork(w, backend) ==
    LET me == workers[w]
        id == me.ids[me.i]
        db == [threads |-> threads, emails |-> emails, drafts |-> drafts]
        step == ProcessEmail(db, id, me.offline, backend, now)
        t == emails[id].thread
        d == draft(drafts, t)
    IN  /\ me.pc = "loop"
        /\ me.i <= Len(me.ids)
        /\ workers' = [workers EXCEPT ![w] =
              IF ~step.ok THEN [pc |-> "done"]
              ELSE [pc |-> "commit", offline |-> me.offline, ids |-> me.ids, i |-> me.i,
                    email |-> [loaded |-> emails[id], new |-> step.db.emails[id]],
                    thread |-> [loaded |-> threads[t], new |-> step.db.threads[t]],
                    d |-> d,
                    draft |-> IF me.offline THEN [loaded |-> NewDraft(t), new |-> NewDraft(t)]
                              ELSE IF d = 0
                              THEN [loaded |-> NewDraft(t),
                                    new |-> step.db.drafts[Len(step.db.drafts)]]
                              ELSE [loaded |-> drafts[d], new |-> step.db.drafts[d]]]]
        /\ UNCHANGED <<dbVars, arg, auxVars, res>>

\* Line 117 (line 97 offline): db.session.commit() writes the iteration.
PassCommit(w) ==
    LET me == workers[w]
        id == me.ids[me.i]
        t == emails[id].thread
    IN  /\ me.pc = "commit"
        /\ emails' = [emails EXCEPT ![id] = FlushRow(@, me.email.loaded, me.email.new)]
        /\ threads' = [threads EXCEPT ![t] = FlushRow(@, me.thread.loaded, me.thread.new)]
        /\ drafts' = IF me.offline THEN drafts
                     ELSE IF me.d = 0 THEN Append(drafts, me.draft.new)
                     ELSE [drafts EXCEPT ![me.d] =
                              FlushRow(@, me.draft.loaded, me.draft.new)]
        /\ classified' = classified \cup {id}
        /\ workers' = [workers EXCEPT ![w] =
              [pc |-> "loop", offline |-> me.offline, ids |-> me.ids, i |-> me.i + 1]]
        /\ UNCHANGED <<now, last, arg, auxVars, res>>

\* Line 118: the loop is over, or an exception ended the pass.
PassReturn(w) ==
    /\ \/ workers[w].pc = "done"
       \/ workers[w].pc = "loop" /\ workers[w].i > Len(workers[w].ids)
    /\ workers' = [workers EXCEPT ![w] = Idle]
    /\ UNCHANGED <<dbVars, arg, auxVars, res>>

InitConc ==
    InitDb /\ IdleAux /\ workers = [w \in Workers |-> Idle] /\ arg = "" /\ res = NoCall

NextConc ==
    \/ \E u \in Agents : AddThread(u) /\ UNCHANGED <<workers, arg, auxVars, res>>
    \/ \E t \in 1..MaxThreads, k \in EmailKinds :
        AddEmail(t, k.body, k.atts) /\ UNCHANGED <<workers, arg, auxVars, res>>
    \/ \E w \in Workers, offline \in BOOLEAN : PassStart(w, offline)
    \/ \E w \in Workers, b \in PipelineBackends : PassWork(w, b)
    \/ \E w \in Workers : PassCommit(w)
    \/ \E w \in Workers : PassReturn(w)

SpecConc == InitConc /\ [][NextConc]_vars

\* C4: with concurrent passes, no two Draft rows belong to the same Thread.
C4_NoDuplicateDraftUnderConcurrency ==
    \A d1, d2 \in Ids(drafts) : drafts[d1].thread = drafts[d2].thread => d1 = d2

----------------------------------------------------------------------------
(* services/rag.py: RAGService over the KBEntry table.                      *)

\* The words the encoder tells apart.
Vocabulary == {"shipping", "returns", "days", "warranty", "parts", "zqx17"}

\* SentenceTransformer.encode(text).  The model is a library; it is taken here
\* as the unit vector of the Vocabulary words the text holds, given by the set
\* of these words.
encode(text) == {w \in Vocabulary : In(w, text)}

\* IndexFlatL2: the squared distance of two unit vectors is
\* 2 - 2 |u /\ v| / sqrt(|u| |v|), so u is strictly nearer to q than v is when
\* |q /\ u|^2 |v| > |q /\ v|^2 |u|.
Nearer(q, u, v) ==
    Cardinality(q \cap u) * Cardinality(q \cap u) * Cardinality(v)
        > Cardinality(q \cap v) * Cardinality(q \cap v) * Cardinality(u)

\* The first k positions, whatever the distances.
search_by_position(vectors, q, k) == [r \in 1..k |-> r]

\* index.search(vector, k): the positions of the k nearest vectors by
\* ascending distance, the earlier position first among equals.
search(vectors, q, k) ==
    LET n == Len(vectors)
        Before(i, j) == \/ Nearer(q, vectors[i], vectors[j])
                        \/ ~Nearer(q, vectors[j], vectors[i]) /\ i < j
        Rank(i) == 1 + Cardinality({j \in 1..n : j # i /\ Before(j, i)})
    IN  [r \in 1..k |-> CHOOSE i \in 1..n : Rank(i) = r]

\* KBEntry(title, content)
NewKBEntry(content) == [content |-> content]

\* build_index(): the index and the map over the KBEntry rows of the table.
build_index(entries) ==
    IF entries = <<>> THEN NoIndex
    ELSE [built |-> TRUE,
          vectors |-> [i \in 1..Len(entries) |-> encode(entries[i].content)],
          id_to_entry |-> entries]

\* get_top_k(query, k): the service afterwards and the snippets returned.
\* The index answers with the vectors it holds (it pads the rest with -1), and
\* lines 51-54 drop the positions the map does not hold.
get_top_k(service, entries, query, k) ==
    LET s == IF ~service.built THEN build_index(entries) ELSE service
        n == Min(Min(k, Len(s.id_to_entry)), Len(s.vectors))
        indices == search(s.vectors, encode(query), n)
        mapped == SelectSeq(indices, LAMBDA idx : idx <= Len(s.id_to_entry))
    IN  IF ~s.built \/ s.id_to_entry = <<>> THEN [rag |-> s, snippets |-> <<>>]
        ELSE [rag |-> s,
              snippets |-> [r \in 1..Len(mapped) |-> s.id_to_entry[mapped[r]].content]]

MaxEntries == 3
MaxK == 2

KBContents == {"shipping takes days", "returns within days", "warranty zqx17 covers parts"}
Queries == {"zqx17", "shipping", "days"}

\* db.session.add(KBEntry(...)); db.session.commit()
InsertEntry(content) ==
    /\ Len(kb) < MaxEntries
    /\ kb' = Append(kb, NewKBEntry(content))
    /\ res' = NoCall
    /\ UNCHANGED <<dbVars, workers, rag, notifications, arg>>

\* KBEntry.query.delete(); db.session.commit()
DeleteEntries ==
    /\ kb # <<>>
    /\ kb' = <<>>
    /\ res' = NoCall
    /\ UNCHANGED <<dbVars, workers, rag, notifications, arg>>

\* RAGService()
NewService ==
    /\ rag' = NoIndex
    /\ res' = NoCall
    /\ UNCHANGED <<dbVars, workers, kb, notifications, arg>>

\* rag.build_index()
BuildIndex ==
    /\ rag' = build_index(kb)
    /\ res' = NoCall
    /\ UNCHANGED <<dbVars, workers, kb, notifications, arg>>

\* rag.get_top_k(query, k)
Query(query, k) ==
    LET out == get_top_k(rag, kb, query, k)
    IN  /\ rag' = out.rag
        /\ res' = [op |-> "top_k", query |-> query, k |-> k, snippets |-> out.snippets]
        /\ UNCHANGED <<dbVars, workers, kb, notifications, arg>>

InitRag == IdleDb /\ arg = "" /\ res = NoCall

NextRag ==
    \/ \E content \in KBContents : InsertEntry(content)
    \/ DeleteEntries
    \/ NewService
    \/ BuildIndex
    \/ \E query \in Queries, k \in 1..MaxK : Query(query, k)

SpecRag == InitRag /\ [][NextRag]_vars

\* The rows of the table whose content holds the token.
Holding(token) == {i \in 1..Len(kb) : In(token, kb[i].content)}

\* C15: a query for a token that exactly one KBEntry of the table holds
\* returns that entry's content first.
C15_RoundTrip ==
    res # NoCall /\ res.op = "top_k" =>
        \A i \in Holding(res.query) : Holding(res.query) = {i} =>
            /\ res.snippets # <<>>
            /\ res.snippets[1] = kb[i].content

\* C26: a query answers from the rows the table holds when it runs: every
\* snippet is the content of a current KBEntry (none of a deleted one), and
\* the rows inserted since the index was built count towards the answer.
C26_IndexFollowsTable ==
    (res # NoCall /\ res.op = "top_k") =>
        /\ \A r \in 1..Len(res.snippets) :
                \E i \in 1..Len(kb) : kb[i].content = res.snippets[r]
        /\ Len(res.snippets) = Min(res.k, Len(kb))

\* The number of times content occurs in a sequence of contents.
Occurrences(contents, content) ==
    Cardinality({r \in 1..Len(contents) : contents[r] = content})

\* The contents of the table's rows, in order.
Contents == [i \in 1..Len(kb) |-> kb[i].content]

\* C28: a query on a service that has no index yet builds it over all the
\* rows of the table, and then returns min(k, number of rows) contents of
\* rows, by ascending distance to the query, none of them nearer ones left
\* out; it returns the empty sequence when the table has no row.
C28_TopKOfFreshIndex ==
    [][(res'.op = "top_k" /\ ~rag.built) =>
        LET q == encode(res'.query)
            S == res'.snippets
        IN  /\ rag' = build_index(kb)
            /\ rag'.id_to_entry = kb
            /\ Len(S) = Min(res'.k, Len(kb))
            /\ kb = <<>> => S = <<>>
            /\ \A r \in 1..Len(S) : Occurrences(S, S[r]) <= Occurrences(Contents, S[r])
            /\ \A r \in 1..(Len(S) - 1) : ~Nearer(q, encode(S[r + 1]), encode(S[r]))
            /\ \A i \in 1..Len(kb) :
                    (S # <<>> /\ Nearer(q, encode(kb[i].content), encode(S[Len(S)])))
                        => \E r \in 1..Len(S) : S[r] = kb[i].content
      ]_vars

\* A first query has built the index over three rows and returned two
\* contents, the first strictly nearer to the query than the second and not
\* the first row of the table.
C28_Witness ==
    /\ res # NoCall /\ res.op = "top_k" /\ res.k = 2
    /\ Len(kb) = 3 /\ rag = build_index(kb)
    /\ Len(res.snippets) = 2
    /\ Nearer(encode(res.query), encode(res.snippets[1]), encode(res.snippets[2]))
    /\ res.snippets[1] # kb[1].content

----------------------------------------------------------------------------
(* rag.py: build_index statement by statement, next to a reader.           *)

\* The thread running build_index: workers is <<>> when none does, else one
\* record with the statement it is about to run, the rows it read at line 31
\* and the service as it was when it started.
Building == workers # <<>>

\* Lines 30-31: the rows are read.
BuildRead ==
    /\ ~Building
    /\ workers' = <<[pc |-> "index", entries |-> kb, old |-> rag]>>
    /\ UNCHANGED <<dbVars, auxVars, arg, res>>

\* Line 33, or line 38: self.index is assigned; the new index is empty.
BuildAssignIndex ==
    /\ Building /\ workers[1].pc = "index"
    /\ rag' = IF workers[1].entries = <<>>
              THEN [rag EXCEPT !.built = FALSE, !.vectors = <<>>]
              ELSE [rag EXCEPT !.built = TRUE, !.vectors = <<>>]
    /\ workers' = <<[workers[1] EXCEPT
                        !.pc = IF workers[1].entries = <<>> THEN "map" ELSE "add"]>>
    /\ UNCHANGED <<dbVars, kb, notifications, arg, res>>

\* Line 39: the embeddings are added to the index self.index refers to.
BuildAdd ==
    /\ Building /\ workers[1].pc = "add"
    /\ rag' = [rag EXCEPT !.vectors = build_index(workers[1].entries).vectors]
    /\ workers' = <<[workers[1] EXCEPT !.pc = "map"]>>
    /\ UNCHANGED <<dbVars, kb, notifications, arg, res>>

\* Line 34, or line 40: self.id_to_entry is assigned, and build_index returns.
BuildAssignMap ==
    /\ Building /\ workers[1].pc = "map"
    /\ rag' = [rag EXCEPT !.id_to_entry = workers[1].entries]
    /\ workers' = <<>>
    /\ UNCHANGED <<dbVars, kb, notifications, arg, res>>

\* get_top_k on the other thread.
ConcurrentQuery(query, k) ==
    Query(query, k) /\ workers' = workers

\* The table of the two-thread runs: at most MaxConcEntries rows, of these
\* contents.
MaxConcEntries == 2
ConcContents == {"shipping takes days", "warranty zqx17 covers parts"}

NextRagConc ==
    \/ \E content \in ConcContents : Len(kb) < MaxConcEntries /\ InsertEntry(content)
    \/ DeleteEntries
    \/ BuildRead
    \/ BuildAssignIndex
    \/ BuildAdd
    \/ BuildAssignMap
    \/ \E query \in Queries, k \in 1..MaxK : ConcurrentQuery(query, k)

SpecRagConc == InitRag /\ [][NextRagConc]_vars

\* The complete services a query may answer from: the one before the build
\* in progress and the one after it.
CompleteServices ==
    IF Building THEN {workers[1].old, build_index(workers[1].entries)} ELSE {rag}

\* C27: a query running next to build_index answers as the complete service
\* before the build or the complete service after it would.
C27_QuerySeesCompleteIndex ==
    [][(res'.op = "top_k") =>
        \E c \in CompleteServices :
            res'.snippets = get_top_k(c, kb, res'.query, res'.k).snippets
      ]_vars

----------------------------------------------------------------------------
(* tasks.py: send_notifications_task.                                      *)

\* Config.PRIORITY_TIMEOUT_MINUTES when the environment does not set it.
DefaultTimeout == 30

\* The timeouts configured: one a thread of the model can outlast, and the default.
Timeouts == {TickMinutes, DefaultTimeout}

\* What requests.post does with an alert: it returns a 2xx response, it returns
\* an error response (no raise_for_status() follows), or it raises.
PostOutcomes == {"ok", "http_error", "raise"}

MaxNotifications == 2

\* Notification(user_id, email_id, message, type='slack')
NewNotification(user_id, email_id) ==
    [user_id |-> user_id, email_id |-> email_id, type |-> "slack"]

\* Line 126: Thread.query.filter_by(resolved=False, urgency=True).all(), in id order.
RECURSIVE SelectUrgent(_, _)
SelectUrgent(ths, i) ==
    IF i > Len(ths) THEN <<>>
    ELSE (IF ~ths[i].resolved /\ ths[i].urgency THEN <<i>> ELSE <<>>)
            \o SelectUrgent(ths, i + 1)

\* Line 129: max(thread.emails, key=lambda e: e.timestamp): the first Email of
\* the greatest timestamp.
last_email(ems, t) ==
    CHOOSE e \in EmailsOf(ems, t) :
        /\ \A o \in EmailsOf(ems, t) : ems[o].timestamp <= ems[e].timestamp
        /\ \A o \in EmailsOf(ems, t) : ems[o].timestamp = ems[e].timestamp => e <= o

overdue_strictly(age, timeout) == age > timeout

\* Line 130: if now - last_email.timestamp < timeout: continue
overdue(age, timeout) == ~(age < timeout)

\* Lines 127-142: the loop over the selected threads.  acc holds the
\* Notification table as committed so far, the threads an alert was posted
\* for, and whether the loop was left by an exception (max() of no Email).
RECURSIVE NotifyLoop(_, _, _, _, _, _, _)
NotifyLoop(acc, ids, i, utcnow, timeout, webhook, posts) ==
    IF i > Len(ids) THEN acc
    ELSE LET t == ids[i]
             next(a) == NotifyLoop(a, ids, i + 1, utcnow, timeout, webhook, posts)
         IN  IF EmailsOf(emails, t) = {} THEN [acc EXCEPT !.raised = TRUE]
             ELSE LET e == last_email(emails, t)
                  IN  IF ~overdue(utcnow - emails[e].timestamp, timeout) THEN next(acc)
                      ELSE IF ~webhook THEN next(acc)
                      ELSE IF posts[t] = "raise"
                      THEN next([acc EXCEPT !.posted = @ \cup {t}])
                      ELSE next([acc EXCEPT
                                  !.posted = @ \cup {t},
                                  !.notifications =
                                      Append(@, NewNotification(threads[t].user_id, e))])

\* send_notifications_task(): webhook tells whether Config.SLACK_WEBHOOK_URL is
\* set, posts[t] what requests.post does with the alert about thread t.
send_notifications_task(timeout, webhook, posts) ==
    LET ids == SelectUrgent(threads, 1)
        out == NotifyLoop([notifications |-> notifications, posted |-> {}, raised |-> FALSE],
                          ids, 1, now, timeout, webhook, posts)
    IN  /\ Len(out.notifications) <= MaxNotifications
        /\ notifications' = out.notifications
        /\ last' = [op |-> "notify", timeout |-> timeout, webhook |-> webhook,
                    posted |-> out.posted,
                    failed |-> {t \in out.posted : posts[t] # "ok"},
                    raised |-> out.raised]
        /\ UNCHANGED <<threads, emails, drafts, now, classified>>

InitNotify == Init

NextNotify ==
    \/ \E u \in Agents : AddThread(u) /\ UNCHANGED <<workers, arg, auxVars, res>>
    \/ \E t \in 1..MaxThreads, k \in EmailKinds :
        AddEmail(t, k.body, k.atts) /\ UNCHANGED <<workers, arg, auxVars, res>>
    \/ Tick /\ UNCHANGED <<workers, arg, auxVars, res>>
    \/ \E offline \in BOOLEAN :
        /\ process_emails_task(offline, TRUE, [i \in 1..Len(select_unprocessed(emails)) |-> GoodBackend])
        /\ UNCHANGED <<workers, arg, auxVars, res>>
    \/ \E u \in Agents, t \in 1..MaxThreads :
        thread_view(u, t, EnglishForm) /\ UNCHANGED <<workers, arg, auxVars, res>>
    \/ \E timeout \in Timeouts, webhook \in BOOLEAN, posts \in [1..MaxThreads -> PostOutcomes] :
        /\ send_notifications_task(timeout, webhook, posts)
        /\ UNCHANGED <<workers, arg, kb, rag, res>>

SpecNotify == InitNotify /\ [][NextNotify]_vars

\* The Notification rows the step has added that point at an Email of thread t.
Recorded(t) ==
    {n \in (Len(notifications) + 1)..Len(notifications') :
        emails[notifications'[n].email_id].thread = t}

\* The greatest timestamp among the Emails of thread t.
MostRecent(t) ==
    CHOOSE m \in {emails[e].timestamp : e \in EmailsOf(emails, t)} :
        \A e \in EmailsOf(emails, t) : emails[e].timestamp <= m

\* Thread t is unresolved, urgent, and silent for at least the timeout.
Stale(t, timeout) ==
    /\ ~threads[t].resolved
    /\ threads[t].urgency
    /\ now - MostRecent(t) >= timeout

C18_FailedDeliveryNotRecorded ==
    [][last'.op = "notify" /\ last'.webhook =>
        /\ ~last'.raised
        /\ \A t \in last'.failed : Recorded(t) = {}
        /\ \A t \in Ids(threads) : Stale(t, last'.timeout) => t \in last'.posted]_vars

\* A Notification is on record for the most recent Email of thread t: the
\* thread was alerted and no Email has arrived in it since.
AlreadyNotified(t) ==
    /\ EmailsOf(emails, t) # {}
    /\ \E n \in 1..Len(notifications) :
            notifications[n].email_id = last_email(emails, t)

\* C29: a run posts no alert and records no Notification for a Thread that
\* already has a Notification for its most recent Email.
C29_NoRepeatedAlert ==
    [][last'.op = "notify" =>
        \A t \in Ids(threads) :
            AlreadyNotified(t) => (t \notin last'.posted /\ Recorded(t) = {})
      ]_vars

----------------------------------------------------------------------------
(* A send-reply request arriving while a processing pass is in flight.      *)

\* The worker that runs the pass.
PassWorker == "w1"

NextSend ==
    \/ \E u \in Agents : AddThread(u) /\ UNCHANGED <<workers, arg, auxVars, res>>
    \/ \E t \in 1..MaxThreads, k \in EmailKinds :
        AddEmail(t, k.body, k.atts) /\ UNCHANGED <<workers, arg, auxVars, res>>
    \/ \E offline \in BOOLEAN : PassStart(PassWorker, offline)
    \/ \E b \in PipelineBackends : PassWork(PassWorker, b)
    \/ PassCommit(PassWorker)
    \/ PassReturn(PassWorker)
    \/ \E u \in Agents, t \in 1..MaxThreads :
        thread_view(u, t, EnglishForm) /\ UNCHANGED <<workers, arg, auxVars, res>>

SpecSend == InitConc /\ [][NextSend]_vars

\* C20: when a pass commits an iteration for which it had loaded the Draft
\* before the agent's send-reply request committed, the Draft stays sent and
\* keeps the text the agent sent.
C20_SendNotLost ==
    [][\A w \in Workers :
        (/\ workers[w].pc = "commit" /\ workers'[w].pc = "loop"
         /\ ~workers[w].offline /\ workers[w].d # 0
         /\ ~workers[w].draft.loaded.is_sent
         /\ drafts[workers[w].d].is_sent)
        => /\ drafts'[workers[w].d].is_sent
           /\ drafts'[workers[w].d].reply_text = drafts[workers[w].d].reply_text]_vars

----------------------------------------------------------------------------
(* thread_view, with the request each state follows.                       *)

\* One request to thread_view; res keeps who asked, for which thread, and
\* with which form.
ViewRequest(current_user, thread_id, form) ==
    /\ thread_view(current_user, thread_id, form)
    /\ res' = [op |-> "view", current_user |-> current_user,
               thread_id |-> thread_id, form |-> form]
    /\ UNCHANGED <<workers, arg, auxVars>>

NextView ==
    \/ \E u \in Agents : AddThread(u) /\ UNCHANGED <<workers, arg, auxVars, res>>
    \/ \E t \in 1..MaxThreads, k \in EmailKinds :
        AddEmail(t, k.body, k.atts) /\ UNCHANGED <<workers, arg, auxVars, res>>
    \/ /\ process_emails_task(FALSE, TRUE,
                               [i \in 1..Len(select_unprocessed(emails)) |-> GoodBackend])
       /\ UNCHANGED <<workers, arg, auxVars, res>>
    \/ \E u \in Users, t \in 1..MaxThreads, f \in Forms : ViewRequest(u, t, f)

SpecView == Init /\ [][NextView]_vars

\* C33: a request for a Thread that has no Draft, and a request by a user
\* who does not own the Thread, change no Thread and no Draft: none is
\* created, none is marked sent, and the resolved flag stays as it was.
C33_RefusedSendChangesNothing ==
    [][(last'.op = "view" /\ res'.op = "view" /\ res'.thread_id \in Ids(threads)
        /\ (\/ DraftsOf(drafts, res'.thread_id) = {}
            \/ threads[res'.thread_id].user_id # res'.current_user)) =>
            (threads' = threads /\ drafts' = drafts)
      ]_vars

\* The owner has just posted a valid reply form for an unresolved Thread that
\* has Emails and no Draft.
C33_Witness ==
    /\ last.op = "view" /\ res # NoCall /\ res.op = "view" /\ res.form.valid
    /\ res.thread_id \in Ids(threads)
    /\ threads[res.thread_id].user_id = res.current_user
    /\ EmailsOf(emails, res.thread_id) # {}
    /\ DraftsOf(drafts, res.thread_id) = {}
    /\ ~threads[res.thread_id].resolved

\* A user who does not own the Thread has just posted a valid reply form for
\* a Thread that has a Draft, and the Draft is not sent.
NonOwnerRefused ==
    /\ last.op = "view" /\ res # NoCall /\ res.op = "view" /\ res.form.valid
    /\ res.thread_id \in Ids(threads)
    /\ threads[res.thread_id].user_id # res.current_user
    /\ \E d \in DraftsOf(drafts, res.thread_id) : ~drafts[d].is_sent

============================================================================
